---------------------------- MODULE Spec2Model ----------------------------
(***************************************************************************)
(* A model of the console synchronization and input/output pipeline of     *)
(* StanfordCPPLib/graphics/gconsolewindow.cpp (class GConsoleWindow).       *)
(*                                                                         *)
(* Execution contexts:                                                     *)
(*   - the Qt GUI thread: key handlers (processKeyPress and what it calls),*)
(*     menu actions (loadInputScript), and the lambdas that print() and    *)
(*     readLine() post with GThread::runOnQtGuiThreadAsync;                *)
(*   - one reader thread inside readLine();                                *)
(*   - any number of threads calling print().                              *)
(* A handler of the GUI thread runs to completion before the next one      *)
(* starts, so each is one action.  readLine() is cut at the points where   *)
(* it reads or writes state shared with the GUI thread.                    *)
(*                                                                         *)
(* Strings are sequences of one-character strings.  The text surface       *)
(* (GTextArea / QTextEdit) is an external collaborator: where the text     *)
(* cursor and the selection are, and whether getUserInputFragment() finds  *)
(* the pending input, are what the surface answers when a handler runs;    *)
(* the user can move cursor and selection freely between two key events,   *)
(* so a handler takes them as inputs.                                      *)
(***************************************************************************)
EXTENDS Integers, Sequences, FiniteSets, TLC

(***************************************************************************)
(* Bounds of the model.                                                    *)
(***************************************************************************)
\* SpecTyped: typed lines and readLine()
TypedLen == 1      \* longest pending input line
TypedLines == 2    \* Enter submissions in a run
TypedReads == 2    \* readLine() calls in a run
\* SpecHist: command history
HistLen == 1
HistLines == 2
HistReads == 1
\* SpecScript: input scripts
ScriptLen == 1
ScriptLines == 1
ScriptReads == 2
ScriptLoads == 1   \* loadInputScript() calls in a run
\* SpecEof: end of input and shutdown
EofLen == 1
EofLines == 1
EofReads == 2
EofIgnores == 1    \* Ctrl+D presses in a run that find pending input
\* SpecOut: print()
OutPrints == 2     \* print() calls in a run
OutLen == 1
OutLines == 1
ClearPrints == 2   \* print() calls, those of clearConsole() included
ClearLen == 1
LockPrints == 1    \* print() calls in a run with getAllOutput()
LockLen == 1
LockLines == 1
\* SpecLive: readLine() under fair scheduling of the reader thread
LiveLines == 1
LiveReads == 1
LiveLoads == 2
\* SpecOrder: print() and readLine() with input scripts
OrderPrints == 2
OrderReads == 1
OrderLoads == 1

(***************************************************************************)
(* Inputs.                                                                 *)
(***************************************************************************)
CR == "\r"
LF == "\n"
\* the key character of a key event; NUL ('\0') is that of a key without one
NUL == ""
Keys == {"a", "b", NUL}
Printable == {"a", "b", "1", "2", "x", "y"}
\* contents of the script files that can be loaded, as lines
Scripts == { <<>>, << <<"1">> >>, << <<"1">>, <<"2">> >> }
\* texts passed to print()
PrintTexts == { <<"x">>, <<"y", CR, LF>>, <<CR>> }
Threads == {1, 2}
\* the thread that calls readLine()
ReaderThread == 1

VARIABLES
    _inputBuffer,          \* std::string _inputBuffer: pending input
    _inputLines,           \* Queue<std::string> _inputLines: InputQueue
    _inputScript,          \* Queue<std::string> _inputScript: ScriptQueue
    _inputCommandHistory,  \* Vector<std::string> _inputCommandHistory
    _commandHistoryIndex,  \* int _commandHistoryIndex
    _promptActive,         \* bool _promptActive
    _shutdown,             \* bool _shutdown
    _allOutputBuffer,      \* std::ostringstream _allOutputBuffer: OutputLog
    _cinQueueMutex,        \* who holds _cinQueueMutex: "none" or "reader"
    eof,                   \* std::cin's eofbit
    guiQueue,              \* lambdas posted to the GUI thread, not yet run
    pc,                    \* where the reader thread is in readLine()
    line,                  \* readLine()'s local std::string line
    lineRead,              \* readLine()'s local bool lineRead
    \* observers: what the operations did, for stating the properties
    returned,              \* the values readLine() calls returned, in order
    taken,                 \* the lines the current readLine() call dequeued
    nloads,                \* loadInputScript() calls so far
    loaded,                \* the lines of the last script file loaded
    discarded,             \* the lines the last load removed from _inputScript
    _clearEnabled,         \* bool _clearEnabled
    _textArea,             \* the text of _textArea that print() wrote (output
                           \* and error colour); the pending input shown in
                           \* it is what the views below describe
    wiped,                 \* whether clearText() has emptied _textArea and
                           \* nothing has been written into it since
    late,                  \* for each printing thread, whether its last
                           \* print() call was made with _shutdown set
    printPc,               \* where each printing thread is in print()
    printArg,              \* the str argument of each thread's print() call
    sent,                  \* what the thread that reads has posted to the GUI
                           \* thread since it first called readLine(), in the
                           \* order of its calls: the echoes of its readLine()
                           \* calls and the texts of its print() calls, each
                           \* with the number of print() texts posted before
    printed,               \* the texts of the print() calls that got past the
                           \* _shutdown test, in the order they were posted
    probe,                 \* the lines submitted with both queues empty, by
                           \* the readLine() call (counted from 1) that
                           \* follows the submit
    _coutMutex,            \* who holds _coutMutex: "none" or "getter"
    getPc,                 \* where the thread that calls getAllOutput() is
    eofIgnored,            \* Ctrl+D presses that found pending input
    eofFrom                \* the first readLine() call (counted from 1) that
                           \* end of input reaches: the call that was waiting
                           \* when Ctrl+D set it, or else the next call to
                           \* begin; 0 before that

vars == << _inputBuffer, _inputLines, _inputScript, _inputCommandHistory,
           _commandHistoryIndex, _promptActive, _shutdown, _allOutputBuffer,
           _cinQueueMutex, eof, guiQueue, pc, line, lineRead,
           printPc, printArg, returned, taken, nloads, printed, probe,
           loaded, discarded, _clearEnabled, _textArea, wiped, late, sent,
           _coutMutex, getPc,
           eofIgnored, eofFrom >>

guiVars == << _inputBuffer, _inputCommandHistory, _commandHistoryIndex >>
queueVars == << _inputLines, _inputScript, _cinQueueMutex >>
readerVars == << pc, line, lineRead, returned, taken >>
printVars == << printPc, printArg, printed, late, sent >>
loadVars == << nloads, loaded, discarded >>
clearVars == << _clearEnabled, _textArea, wiped >>
coutVars == << _coutMutex, getPc >>

(***************************************************************************)
(* Pure helpers.                                                           *)
(***************************************************************************)
\* std::string::erase(pos, n)
Erase(s, pos, n) ==
    SubSeq(s, 1, pos) \o SubSeq(s, pos + n + 1, Len(s))

\* std::string::insert(pos, str)
Insert(s, pos, str) ==
    SubSeq(s, 1, pos) \o str \o SubSeq(s, pos + 1, Len(s))

\* isprint(key) && key != '\0'
IsPrint(key) == key \in Printable

\* stringReplaceInPlace(s, "\r\n", "\n"): every occurrence, left to right
RECURSIVE ReplaceCRLF(_)
ReplaceCRLF(s) ==
    IF s = <<>> THEN <<>>
    ELSE IF Len(s) >= 2 /\ s[1] = CR /\ s[2] = LF
         THEN <<LF>> \o ReplaceCRLF(SubSeq(s, 3, Len(s)))
         ELSE <<s[1]>> \o ReplaceCRLF(Tail(s))

\* stringReplaceInPlace(s, "\r", "\n")
ReplaceCR(s) == [i \in DOMAIN s |-> IF s[i] = CR THEN LF ELSE s[i]]

\* print() without its first replacement: only "\r" becomes "\n"
CleanLoneCR(str) == ReplaceCR(str)

\* print() without its second replacement: a lone "\r" stays
CleanCRLFOnly(str) == ReplaceCRLF(str)

\* print(), lines 614-617: "clean up line breaks (remove \r)"
CleanLineBreaks(str) == ReplaceCR(ReplaceCRLF(str))

(***************************************************************************)
(* Construction.                                                           *)
(***************************************************************************)
Init ==
    /\ _inputBuffer = <<>>
    /\ _inputLines = <<>>
    /\ _inputScript = <<>>
    /\ _inputCommandHistory = <<>>
    /\ _commandHistoryIndex = -1
    /\ _promptActive = FALSE
    /\ _shutdown = FALSE
    /\ _allOutputBuffer = <<>>
    /\ _cinQueueMutex = "none"
    /\ eof = FALSE
    /\ guiQueue = <<>>
    /\ pc = "idle"
    /\ line = <<>>
    /\ lineRead = FALSE
    /\ returned = <<>>
    /\ taken = <<>>
    /\ nloads = 0
    /\ loaded = <<>>
    /\ discarded = <<>>
    /\ _clearEnabled = TRUE
    /\ _textArea = <<>>
    /\ wiped = FALSE
    /\ late = [t \in Threads |-> FALSE]
    /\ sent = <<>>
    /\ _coutMutex = "none"
    /\ getPc = "idle"
    /\ printPc = [t \in Threads |-> "idle"]
    /\ printArg = [t \in Threads |-> <<>>]
    /\ printed = <<>>
    /\ probe = <<>>
    /\ eofIgnored = 0
    /\ eofFrom = 0


(***************************************************************************)
(* The text surface, as a handler sees it.  A view is what the surface     *)
(* answers during one handler: found is whether getUserInputFragment()     *)
(* returns a valid fragment (never for an empty _inputBuffer, line 429),   *)
(* and pos, selStart, selEnd are the cursor position and the selection     *)
(* relative to getUserInputStart() (the fragment's position, or the end of *)
(* the text when there is no fragment).  The fragment's text equals        *)
(* _inputBuffer (line 440), so its length is that of the buffer.           *)
(* pos = -1 stands for every cursor position outside the input area.  The  *)
(* handlers read the selection only with the cursor inside the fragment,   *)
(* and change _inputBuffer for it only when it lies inside the fragment    *)
(* (lines 976-978): the views list those selections, with the cursor at    *)
(* their end, and selStart = selEnd = pos for every other case.            *)
(***************************************************************************)
AreaLen(buf, found) == IF found THEN Len(buf) ELSE 0

ViewsOfLen(n) ==
    { v \in [found : BOOLEAN,
             pos : -1 .. n,
             selStart : -1 .. n,
             selEnd : -1 .. n] :
        /\ v.found => n > 0
        /\ v.pos <= (IF v.found THEN n ELSE 0)
        /\ v.selStart <= v.selEnd
        /\ v.pos = v.selEnd
        /\ v.selStart < v.selEnd => v.found /\ v.selStart >= 0 }

LongestLine ==
    LET m(a, b) == IF a > b THEN a ELSE b
    IN m(m(m(TypedLen, HistLen), m(ScriptLen, EofLen)), m(m(OutLen, LockLen), ClearLen))

ViewTable == [n \in 0 .. LongestLine |-> ViewsOfLen(n)]

Views(buf) == ViewTable[Len(buf)]

\* the views with nothing selected
CursorViews(buf) == { v \in Views(buf) : v.selStart = v.selEnd }

\* the view after GTextArea::appendFormattedText or QTextCursor::insertText
\* at the end of the text: the cursor is at the end, nothing is selected
CursorAtEnd(buf, found) ==
    LET f == found /\ buf # <<>>
        p == AreaLen(buf, f)
    IN [found |-> f, pos |-> p, selStart |-> p, selEnd |-> p]

\* the test of the cursor position without that of _promptActive
IsCursorInAreaOfAnyPrompt(buf, view) ==
    /\ 0 <= view.pos
    /\ view.pos <= AreaLen(buf, view.found)

\* isCursorInUserInputArea(), lines 482-489
IsCursorInUserInputArea(buf, view) ==
    /\ _promptActive
    /\ 0 <= view.pos
    /\ view.pos <= AreaLen(buf, view.found)

(***************************************************************************)
(* Handlers of the GUI thread.                                             *)
(***************************************************************************)
\* a key handler that always appends, wherever the cursor is
ProcessUserInputKeyAtEnd(buf, view, key) ==
    IF _shutdown THEN buf
    ELSE IF ~IsPrint(key) THEN buf
    ELSE buf \o <<key>>

\* processUserInputKey(key), lines 955-1031: the new _inputBuffer
ProcessUserInputKey(buf, view, key) ==
    IF _shutdown THEN buf
    ELSE IF ~IsPrint(key) THEN buf
    ELSE IF IsCursorInUserInputArea(buf, view) /\ view.found
    THEN LET removeSel == /\ view.selEnd > view.selStart
                          /\ view.selStart >= 0
                          /\ view.selEnd <= Len(buf)
             b1 == IF removeSel
                   THEN Erase(buf, view.selStart, view.selEnd - view.selStart)
                   ELSE buf
             indexToInsert == IF removeSel THEN view.selStart ELSE view.pos
         IN Insert(b1, indexToInsert, <<key>>)
    ELSE buf \o <<key>>

\* the index of the character at the cursor, whatever the key
IndexToDeleteAtCursor(buf, view, isBackspace) ==
    LET userInputIndexMax == Len(buf) - (IF isBackspace THEN 0 ELSE 1)
    IN IF view.pos >= 0 /\ view.pos < userInputIndexMax
       THEN view.pos
       ELSE Len(buf) - 1

\* processBackspace(key), lines 890-902: indexToDelete, with the cursor
\* position taken from the start of the user input fragment
IndexToDelete(buf, view, isBackspace) ==
    LET userInputIndexMax == Len(buf) - (IF isBackspace THEN 0 ELSE 1)
    IN IF view.pos >= 0 /\ view.pos < userInputIndexMax
       THEN view.pos - (IF isBackspace THEN 1 ELSE 0)
       ELSE Len(buf) - 1

\* processBackspace(key), lines 873-910: what is done to the text of
\* _textArea
BackspaceEdit(buf, view, isBackspace) ==
    IF _shutdown \/ ~_promptActive THEN "none"
    ELSE IF buf = <<>> \/ ~view.found THEN "none"
    ELSE LET indexToDelete == IndexToDelete(buf, view, isBackspace)
         IN IF indexToDelete >= 0 /\ indexToDelete < Len(buf)
            THEN IF isBackspace \/ indexToDelete = Len(buf) - 1
                 THEN "deletePreviousChar"
                 ELSE "deleteChar"
            ELSE "none"

\* processBackspace(key), lines 872-917: the new _inputBuffer
ProcessBackspace(buf, view, isBackspace) ==
    IF _shutdown \/ ~_promptActive THEN buf
    ELSE IF buf = <<>> \/ ~view.found THEN buf
    ELSE LET indexToDelete == IndexToDelete(buf, view, isBackspace)
         IN IF indexToDelete >= 0 /\ indexToDelete < Len(buf)
            THEN Erase(buf, indexToDelete, 1)
            ELSE buf

\* setUserInput(userInput), lines 1231-1253: the new _inputBuffer.  After
\* the old input is removed each character goes through
\* processUserInputKey, which leaves the cursor at the end of the text.
RECURSIVE TypeAll(_, _, _)
TypeAll(buf, found, str) ==
    IF str = <<>> THEN buf
    ELSE TypeAll(ProcessUserInputKey(buf, CursorAtEnd(buf, found), Head(str)),
                 found, Tail(str))

SetUserInput(found, userInput) == TypeAll(<<>>, found, userInput)

\* the index moved without the std::max and std::min of lines 922-923
HistoryIndexUnclamped(delta) == _commandHistoryIndex + delta

\* processCommandHistory(delta), lines 919-930: the new index
HistoryIndex(delta) ==
    LET i1 == _commandHistoryIndex + delta
        i2 == IF -1 > i1 THEN -1 ELSE i1
    IN IF i2 < Len(_inputCommandHistory) THEN i2 ELSE Len(_inputCommandHistory)

\* ... and the command it recalls (0-based index into the Vector)
OldCommand(index) ==
    IF 0 <= index /\ index < Len(_inputCommandHistory)
    THEN _inputCommandHistory[index + 1]
    ELSE <<>>

\* processKeyPress, default case (lines 698, 864-868): a character key;
\* a printable one is written into _textArea (lines 1003-1025)
TypeKey ==
    /\ \E after \in
           { [buffer |-> IF _shutdown THEN _inputBuffer
                         ELSE ProcessUserInputKey(_inputBuffer, view, key),
              wiped |-> wiped /\ (_shutdown \/ ~IsPrint(key))] :
               key \in Keys, view \in Views(_inputBuffer) } :
         /\ _inputBuffer' = after.buffer
         /\ wiped' = after.wiped
    /\ UNCHANGED << coutVars, _inputLines, _inputScript, _inputCommandHistory,
                    _commandHistoryIndex, _promptActive, _shutdown,
                    _allOutputBuffer, _cinQueueMutex, eof, guiQueue,
                    readerVars, printVars, loadVars, _clearEnabled,
                    _textArea, probe, eofIgnored, eofFrom >>

\* processKeyPress, BACKSPACE_KEY and DELETE_KEY (lines 698, 713-726)
BackspaceKey ==
    /\ _inputBuffer' \in
         { IF _shutdown THEN _inputBuffer
           ELSE ProcessBackspace(_inputBuffer, view, isBackspace) :
             isBackspace \in BOOLEAN, view \in CursorViews(_inputBuffer) }
    /\ UNCHANGED << coutVars, _inputLines, _inputScript, _inputCommandHistory,
                    _commandHistoryIndex, _promptActive, _shutdown,
                    _allOutputBuffer, _cinQueueMutex, eof, guiQueue,
                    readerVars, printVars, loadVars, clearVars, probe, eofIgnored, eofFrom >>

\* the mode in which each handler locks _cinMutex around what it does to
\* _inputBuffer, _inputCommandHistory and _commandHistoryIndex
CinMutexMode(handler) ==
    CASE handler = "clipboardCut" -> "write"                \* line 330
      [] handler = "processBackspace" -> "write"            \* line 880
      [] handler = "processCommandHistory" -> "read"        \* line 920
      [] handler = "processUserInputEnterKey" -> "write"    \* line 943
      [] handler = "processUserInputKey" -> "write"         \* line 961
      [] handler = "setUserInput" -> "write"                \* line 1232

\* processKeyPress, UP_ARROW_KEY or DOWN_ARROW_KEY (lines 698, 805-816)
\* with processCommandHistory(delta): _commandHistoryIndex and _inputBuffer
\* after the key, and the mode in which _cinMutex is held while
\* _commandHistoryIndex is assigned ("none" when the key is ignored and
\* nothing is assigned)
ArrowOutcome(delta, view, found) ==
    IF ~_shutdown /\ IsCursorInUserInputArea(_inputBuffer, view)
    THEN [index |-> HistoryIndex(delta),
          buffer |-> SetUserInput(found, OldCommand(HistoryIndex(delta))),
          lock |-> CinMutexMode("processCommandHistory")]
    ELSE [index |-> _commandHistoryIndex, buffer |-> _inputBuffer,
          lock |-> "none"]

\* the outcomes for every key of the two, cursor position and answer of
\* getUserInputFragment()
ArrowOutcomes ==
    { ArrowOutcome(delta, view, found) :
        delta \in {-1, 1}, view \in CursorViews(_inputBuffer),
        found \in BOOLEAN }

ArrowKey ==
    /\ \E after \in ArrowOutcomes :
         /\ _commandHistoryIndex' = after.index
         /\ _inputBuffer' = after.buffer
         /\ wiped' = (wiped /\ (after.lock = "none" \/ after.buffer = <<>>))
    /\ UNCHANGED << coutVars, _inputLines, _inputScript, _inputCommandHistory,
                    _promptActive, _shutdown,
                    _allOutputBuffer, _cinQueueMutex, eof, guiQueue,
                    readerVars, printVars, loadVars, _clearEnabled,
                    _textArea, probe, eofIgnored, eofFrom >>

\* Queue::enqueue(value), as called at lines 594 and 945
Enqueue(queue, value) == Append(queue, value)

\* the index of the last entry instead of the size
HistoryLast(history) == Len(history) - 1

\* processUserInputEnterKey(), line 947: _inputCommandHistory.size()
HistoryEnd(history) == Len(history)

\* the buffer read after line 950 has cleared it
EnteredLineAfterClear == <<>>

\* processUserInputEnterKey(), line 945: the line that is enqueued is
\* _inputBuffer as it is before line 950 clears it
EnteredLine == _inputBuffer

\* processUserInputEnterKey(), lines 939-953; line 951 writes "\n" into
\* _textArea
EnterKey ==
    /\ IF _shutdown
       THEN UNCHANGED << _inputLines, _inputCommandHistory,
                         _commandHistoryIndex, _allOutputBuffer,
                         _inputBuffer, probe, wiped >>
       ELSE /\ _cinQueueMutex = "none"
            /\ wiped' = FALSE
            /\ _inputLines' = Enqueue(_inputLines, EnteredLine)
            /\ _inputCommandHistory' = Append(_inputCommandHistory, _inputBuffer)
            /\ _commandHistoryIndex' = HistoryEnd(_inputCommandHistory')
            /\ _allOutputBuffer' = _allOutputBuffer \o _inputBuffer \o <<LF>>
            /\ _inputBuffer' = <<>>
            /\ probe' = IF _inputLines = <<>> /\ _inputScript = <<>>
                        THEN (Len(returned) + 1
                                + (IF pc = "exit" THEN 1 ELSE 0)
                              :> _inputBuffer) @@ probe
                        ELSE probe
    /\ UNCHANGED << coutVars, _inputScript, _promptActive, _shutdown, _cinQueueMutex,
                    eof, guiQueue, readerVars, printVars, loadVars,
                    _clearEnabled, _textArea, eofIgnored, eofFrom >>

\* processEof() without the test of line 934
EofAnywhere(buf) == TRUE

\* processEof(), line 934: the test that lets it set the end of input
EofAtLineStart(buf) == buf = <<>>

\* processEof(), lines 932-937 (Ctrl+D, line 673)
ProcessEof ==
    /\ IF EofAtLineStart(_inputBuffer)
       THEN /\ eof' = TRUE
            /\ eofFrom' = IF eof THEN eofFrom
                          ELSE Len(returned) + 1
                                 + (IF pc \in {"idle", "loop", "sleep"}
                                    THEN 0 ELSE 1)
            /\ UNCHANGED eofIgnored
       ELSE /\ eofIgnored' = eofIgnored + 1
            /\ UNCHANGED << eof, eofFrom >>
    /\ UNCHANGED << coutVars, _inputBuffer, _inputLines, _inputScript,
                    _inputCommandHistory, _commandHistoryIndex,
                    _promptActive, _shutdown, _allOutputBuffer,
                    _cinQueueMutex, guiQueue, readerVars, printVars, loadVars, clearVars,
                    probe >>

\* loadInputScript(filename), lines 593-595: every line is enqueued
RECURSIVE EnqueueAll(_, _)
EnqueueAll(queue, lines) ==
    IF lines = <<>> THEN queue
    ELSE EnqueueAll(Enqueue(queue, Head(lines)), Tail(lines))

\* the lines enqueued behind what the queue still holds
LoadedQueueAppended(lines) == EnqueueAll(_inputScript, lines)

\* loadInputScript(filename), lines 592-595: _inputScript.clear(), then
\* every line is enqueued
LoadedQueue(lines) == EnqueueAll(<<>>, lines)

\* loadInputScript(filename), lines 584-598, for a file that exists
LoadInputScript ==
    /\ _cinQueueMutex = "none"
    /\ \E lines \in Scripts :
         /\ _inputScript' = LoadedQueue(lines)
         /\ loaded' = lines
    /\ discarded' = _inputScript
    /\ nloads' = nloads + 1
    /\ UNCHANGED << coutVars, _inputBuffer, _inputLines, _inputCommandHistory,
                    _commandHistoryIndex, _promptActive, _shutdown,
                    _allOutputBuffer, _cinQueueMutex, eof, guiQueue,
                    readerVars, printVars, clearVars, probe, eofIgnored,
                    eofFrom >>

\* a shutdown() that flips the flag
ShutdownFlagToggled == ~_shutdown

\* shutdown(), line 1326: the value the flag is given
ShutdownFlag == TRUE

\* shutdown(), lines 1322-1332
Shutdown ==
    /\ _shutdown' = ShutdownFlag
    /\ UNCHANGED << coutVars, _inputBuffer, _inputLines, _inputScript,
                    _inputCommandHistory, _commandHistoryIndex,
                    _promptActive, _allOutputBuffer, _cinQueueMutex, eof,
                    guiQueue, readerVars, printVars, loadVars, clearVars, probe,
                    eofIgnored, eofFrom >>

\* GThread::runOnQtGuiThreadAsync(func): func is run later by the GUI
\* thread, after the functions posted before it
RunOnQtGuiThreadAsync(func) == guiQueue' = Append(guiQueue, func)

\* a lambda that writes its text twice
PrintLambdaTwice(strToPrint) == _allOutputBuffer \o strToPrint \o strToPrint

\* a lambda that writes its text in front of the log
PrintLambdaInFront(strToPrint) == strToPrint \o _allOutputBuffer

\* the lambda of print(), lines 619-626: the new _allOutputBuffer
PrintLambda(strToPrint) == _allOutputBuffer \o strToPrint

\* the lambda of readLine(), lines 1059-1064: the new _allOutputBuffer
EchoLambda(scriptLine) == _allOutputBuffer \o scriptLine \o <<LF>>

\* the GUI thread runs the next posted lambda, which locks _coutMutex
\* (lines 620 and 1060); the lambda of print() appends its text to
\* _textArea in output or error colour (line 622), the lambda of readLine()
\* appends in the colour of user input (line 1062)
GuiRun ==
    /\ guiQueue # <<>>
    /\ _coutMutex = "none"
    /\ _allOutputBuffer' =
         IF Head(guiQueue).kind = "print"
         THEN PrintLambda(Head(guiQueue).text)
         ELSE EchoLambda(Head(guiQueue).text)
    /\ _textArea' =
         IF Head(guiQueue).kind = "print"
         THEN _textArea \o Head(guiQueue).text
         ELSE _textArea
    /\ wiped' = (/\ wiped
                 /\ Head(guiQueue).kind = "print"
                 /\ Head(guiQueue).text = <<>>)
    /\ guiQueue' = Tail(guiQueue)
    /\ UNCHANGED << coutVars, _inputBuffer, _inputLines, _inputScript,
                    _inputCommandHistory, _commandHistoryIndex,
                    _promptActive, _shutdown, _cinQueueMutex, eof,
                    readerVars, printVars, loadVars, _clearEnabled, probe,
                    eofIgnored, eofFrom >>

(***************************************************************************)
(* print(str, isStdErr), lines 600-627, on thread t.                       *)
(***************************************************************************)
\* print() without the test of line 601
PrintNeverRefused == FALSE

\* line 601: the test that makes print() return at once
PrintRefused == _shutdown

\* lines 600-603: the call and its _shutdown test
PrintCall(t) ==
    /\ printPc[t] = "idle"
    /\ late' = [late EXCEPT ![t] = _shutdown]
    /\ \E str \in PrintTexts :
         IF PrintRefused
         THEN UNCHANGED << printPc, printArg >>
         ELSE /\ printPc' = [printPc EXCEPT ![t] = "post"]
              /\ printArg' = [printArg EXCEPT ![t] = str]
    /\ UNCHANGED << coutVars, _inputBuffer, _inputLines, _inputScript,
                    _inputCommandHistory, _commandHistoryIndex,
                    _promptActive, _shutdown, _allOutputBuffer,
                    _cinQueueMutex, eof, guiQueue, readerVars, printed, sent,
                    loadVars, clearVars, probe, eofIgnored, eofFrom >>

\* whether the thread that reads has called readLine() yet
HasRead == pc # "idle" \/ returned # <<>>

\* lines 614-627: the line breaks are cleaned and the lambda is posted
PrintPost(t) ==
    /\ printPc[t] = "post"
    /\ RunOnQtGuiThreadAsync([kind |-> "print",
                              text |-> CleanLineBreaks(printArg[t])])
    /\ printed' = Append(printed, printArg[t])
    /\ sent' = IF t = ReaderThread /\ HasRead
               THEN Append(sent, [kind |-> "print",
                                  text |-> CleanLineBreaks(printArg[t]),
                                  at |-> Len(printed)])
               ELSE sent
    /\ printPc' = [printPc EXCEPT ![t] = "idle"]
    /\ printArg' = [printArg EXCEPT ![t] = <<>>]
    /\ UNCHANGED << coutVars, _inputBuffer, _inputLines, _inputScript,
                    _inputCommandHistory, _commandHistoryIndex,
                    _promptActive, _shutdown, _allOutputBuffer,
                    _cinQueueMutex, eof, readerVars, late, loadVars,
                    clearVars, probe, eofIgnored, eofFrom >>

(***************************************************************************)
(* clearConsole(), lines 282-299, and setClearEnabled(), lines 1147-1152.  *)
(* _locked keeps the value false the constructor gives it.                 *)
(***************************************************************************)
\* line 286: the marker line, kept as one symbol
ClearedMsg == <<"(console cleared)">>

\* a clear that wipes the window whatever _clearEnabled is
TextAreaWiped(text) == <<>>

\* GTextArea::clearText(): the text it leaves, when it returns
ClearText == <<>>

\* lines 287-298: the text of _textArea after the call
TextAreaCleared(text) == IF _clearEnabled THEN ClearText ELSE text

\* clearConsole(): with clearing enabled _textArea->clearText() under
\* _coutMutex (lines 292-294); with
\* clearing disabled println(msg), that is print(msg + "\n"), whose
\* lambda is posted
ClearConsole ==
    /\ (~_shutdown /\ _clearEnabled) => _coutMutex = "none"
    /\ IF _shutdown
       THEN UNCHANGED << _textArea, wiped, guiQueue, printed >>
       ELSE /\ _textArea' = TextAreaCleared(_textArea)
            /\ wiped' = (_clearEnabled \/ wiped)
            /\ IF _clearEnabled
               THEN UNCHANGED << guiQueue, printed >>
               ELSE /\ RunOnQtGuiThreadAsync(
                         [kind |-> "print",
                          text |-> CleanLineBreaks(ClearedMsg \o <<LF>>)])
                    /\ printed' = Append(printed, ClearedMsg \o <<LF>>)
    /\ UNCHANGED << coutVars, _inputBuffer, _inputLines, _inputScript,
                    _inputCommandHistory, _commandHistoryIndex,
                    _promptActive, _shutdown, _allOutputBuffer,
                    _cinQueueMutex, eof, readerVars, printPc, printArg, late, sent,
                    loadVars, _clearEnabled, probe, eofIgnored, eofFrom >>

\* setClearEnabled(clearEnabled)
SetClearEnabled ==
    /\ \E clearEnabled \in BOOLEAN :
         _clearEnabled' = IF _shutdown THEN _clearEnabled ELSE clearEnabled
    /\ UNCHANGED << coutVars, _inputBuffer, _inputLines, _inputScript,
                    _inputCommandHistory, _commandHistoryIndex,
                    _promptActive, _shutdown, _allOutputBuffer,
                    _cinQueueMutex, eof, guiQueue, readerVars, printVars,
                    loadVars, _textArea, wiped, probe, eofIgnored, eofFrom >>

(***************************************************************************)
(* getAllOutput(), lines 384-390, on a thread of its own.                  *)
(*   getPc = "idle"   not in getAllOutput()                                *)
(*           "read"   _coutMutex locked (line 386), before the copy        *)
(***************************************************************************)
\* line 386: _coutMutex.lock()
GetAllOutputLock ==
    /\ getPc = "idle"
    /\ _coutMutex = "none"
    /\ _coutMutex' = "getter"
    /\ getPc' = "read"
    /\ UNCHANGED << _inputBuffer, _inputLines, _inputScript,
                    _inputCommandHistory, _commandHistoryIndex,
                    _promptActive, _shutdown, _allOutputBuffer,
                    _cinQueueMutex, eof, guiQueue, readerVars, printVars,
                    loadVars, clearVars, probe, eofIgnored, eofFrom >>

\* lines 387-389: _allOutputBuffer.str() is copied, _coutMutex.unlock()
GetAllOutputRead ==
    /\ getPc = "read"
    /\ _coutMutex' = "none"
    /\ getPc' = "idle"
    /\ UNCHANGED << _inputBuffer, _inputLines, _inputScript,
                    _inputCommandHistory, _commandHistoryIndex,
                    _promptActive, _shutdown, _allOutputBuffer,
                    _cinQueueMutex, eof, guiQueue, readerVars, printVars,
                    loadVars, clearVars, probe, eofIgnored, eofFrom >>

(***************************************************************************)
(* readLine(), lines 1033-1093, on the reader thread.                      *)
(*   pc = "idle"      not in readLine()                                    *)
(*        "loop"      at the while test of line 1050                       *)
(*        "script"    past the test of line 1052, before the lock of 1053  *)
(*        "input"     at the test of line 1067                             *)
(*        "sleep"     in sleep(20), line 1080                              *)
(*        "exit"      past the loop, at line 1084                          *)
(*        "error"     Queue::dequeue() raised its error at line 1054       *)
(***************************************************************************)
\* lines 1033-1048: the call, its _shutdown test, _promptActive = true
ReadLineCall ==
    /\ pc = "idle"
    /\ line' = <<>>
    /\ lineRead' = FALSE
    /\ taken' = <<>>
    /\ IF _shutdown
       THEN /\ returned' = Append(returned, <<>>)
            /\ UNCHANGED << pc, _promptActive >>
       ELSE /\ _promptActive' = TRUE
            /\ pc' = "loop"
            /\ UNCHANGED returned
    /\ UNCHANGED << coutVars, _inputBuffer, _inputLines, _inputScript,
                    _inputCommandHistory, _commandHistoryIndex, _shutdown,
                    _allOutputBuffer, _cinQueueMutex, eof, guiQueue,
                    printVars, loadVars, clearVars, probe, eofIgnored, eofFrom >>

\* a while test that looks at _shutdown only
KeepPollingPastEof == ~_shutdown

\* line 1050: the while test
KeepPolling == ~_shutdown /\ ~eof

\* lines 1050-1052: the while test and the test of _inputScript, no lock held
ReadLoopTest ==
    /\ pc = "loop"
    /\ IF ~KeepPolling
       THEN pc' = "exit" /\ UNCHANGED lineRead
       ELSE /\ lineRead' = FALSE
            /\ pc' = IF _inputScript # <<>> THEN "script" ELSE "input"
    /\ UNCHANGED << coutVars, _inputBuffer, _inputLines, _inputScript,
                    _inputCommandHistory, _commandHistoryIndex,
                    _promptActive, _shutdown, _allOutputBuffer,
                    _cinQueueMutex, eof, guiQueue, line, returned, taken,
                    printVars, loadVars, clearVars, probe, eofIgnored, eofFrom >>

\* lines 1053-1064: under _cinQueueMutex, _inputScript.dequeue(); then the
\* echo lambda is posted.  Queue::dequeue() on an empty queue raises an
\* error, which leaves readLine() with _cinQueueMutex still locked.
ReadScript ==
    /\ pc = "script"
    /\ _cinQueueMutex = "none"
    /\ IF _inputScript = <<>>
       THEN /\ _cinQueueMutex' = "reader"
            /\ pc' = "error"
            /\ UNCHANGED << _inputScript, line, lineRead, taken, guiQueue,
                            sent >>
       ELSE /\ line' = Head(_inputScript)
            /\ _inputScript' = Tail(_inputScript)
            /\ lineRead' = TRUE
            /\ taken' = Append(taken, [src |-> "script",
                                        text |-> Head(_inputScript)])
            /\ RunOnQtGuiThreadAsync([kind |-> "echo",
                                      text |-> Head(_inputScript)])
            /\ sent' = Append(sent, [kind |-> "echo",
                                     text |-> Head(_inputScript) \o <<LF>>,
                                     at |-> Len(printed)])
            /\ pc' = "input"
            /\ UNCHANGED _cinQueueMutex
    /\ UNCHANGED << coutVars, _inputBuffer, _inputLines, _inputCommandHistory,
                    _commandHistoryIndex, _promptActive, _shutdown,
                    _allOutputBuffer, eof, returned, printPc, printArg,
                    printed, late, loadVars, clearVars,
                    probe, eofIgnored, eofFrom >>

\* lines 1067-1081: the test of _inputLines, the dequeue under
\* _cinQueueMutex, and the choice between break and sleep(20)
ReadInput ==
    /\ pc = "input"
    /\ IF _inputLines # <<>>
       THEN /\ _cinQueueMutex = "none"
            /\ line' = Head(_inputLines)
            /\ _inputLines' = Tail(_inputLines)
            /\ lineRead' = TRUE
            /\ taken' = Append(taken, [src |-> "input",
                                        text |-> Head(_inputLines)])
            /\ pc' = "exit"
       ELSE /\ pc' = IF lineRead THEN "exit" ELSE "sleep"
            /\ UNCHANGED << line, _inputLines, lineRead, taken >>
    /\ UNCHANGED << coutVars, _inputBuffer, _inputScript, _inputCommandHistory,
                    _commandHistoryIndex, _promptActive, _shutdown,
                    _allOutputBuffer, _cinQueueMutex, eof, guiQueue,
                    returned, printVars, loadVars, clearVars, probe, eofIgnored, eofFrom >>

\* line 1080: sleep(20) ends
ReadWake ==
    /\ pc = "sleep"
    /\ pc' = "loop"
    /\ UNCHANGED << coutVars, _inputBuffer, _inputLines, _inputScript,
                    _inputCommandHistory, _commandHistoryIndex,
                    _promptActive, _shutdown, _allOutputBuffer,
                    _cinQueueMutex, eof, guiQueue, line, lineRead, returned,
                    taken, printVars, loadVars, clearVars, probe, eofIgnored, eofFrom >>

\* lines 1084-1093: _promptActive = false; return line
ReadReturn ==
    /\ pc = "exit"
    /\ _promptActive' = FALSE
    /\ returned' = Append(returned, line)
    /\ pc' = "idle"
    /\ UNCHANGED << coutVars, _inputBuffer, _inputLines, _inputScript,
                    _inputCommandHistory, _commandHistoryIndex, _shutdown,
                    _allOutputBuffer, _cinQueueMutex, eof, guiQueue, line,
                    lineRead, taken, printVars, loadVars, clearVars, probe, eofIgnored, eofFrom >>

(***************************************************************************)
(* Specifications.  The guards written here bound the runs; the actions    *)
(* above have none of their own.                                           *)
(***************************************************************************)
CanType(maxLen) == Len(_inputBuffer) < maxLen
CanEnter(maxLines) == Len(_inputCommandHistory) < maxLines
CanRead(maxReads) == Len(returned) < maxReads
CanLoad(maxLoads) == nloads < maxLoads
CanPrint(maxPrints) ==
    Len(printed) + Cardinality({u \in Threads : printPc[u] = "post"})
        < maxPrints
CanEof(maxIgnores) == _inputBuffer # <<>> => eofIgnored < maxIgnores

\* typed input: the key handlers and readLine(); no script, no end of
\* input, no shutdown
NextTyped ==
    \/ CanType(TypedLen) /\ TypeKey
    \/ BackspaceKey
    \/ CanEnter(TypedLines) /\ EnterKey
    \/ CanRead(TypedReads) /\ ReadLineCall
    \/ ReadLoopTest
    \/ ReadInput
    \/ ReadWake
    \/ ReadReturn

SpecTyped == Init /\ [][NextTyped]_vars

\* command history: typed input with the Up and Down keys
NextHist ==
    \/ CanType(HistLen) /\ TypeKey
    \/ BackspaceKey
    \/ ArrowKey
    \/ CanEnter(HistLines) /\ EnterKey
    \/ CanRead(HistReads) /\ ReadLineCall
    \/ ReadLoopTest
    \/ ReadInput
    \/ ReadWake
    \/ ReadReturn

SpecHist == Init /\ [][NextHist]_vars

\* input scripts: loadInputScript(), typed lines and readLine()
NextScript ==
    \/ CanLoad(ScriptLoads) /\ LoadInputScript
    \/ CanType(ScriptLen) /\ TypeKey
    \/ CanEnter(ScriptLines) /\ EnterKey
    \/ CanRead(ScriptReads) /\ ReadLineCall
    \/ ReadLoopTest
    \/ ReadScript
    \/ ReadInput
    \/ ReadWake
    \/ ReadReturn
    \/ GuiRun

SpecScript == Init /\ [][NextScript]_vars

\* end of input and shutdown
NextEof ==
    \/ CanEof(EofIgnores) /\ ProcessEof
    \/ Shutdown
    \/ CanType(EofLen) /\ TypeKey
    \/ BackspaceKey
    \/ CanEnter(EofLines) /\ EnterKey
    \/ CanRead(EofReads) /\ ReadLineCall
    \/ ReadLoopTest
    \/ ReadInput
    \/ ReadWake
    \/ ReadReturn

SpecEof == Init /\ [][NextEof]_vars

\* output: the printing threads, the GUI thread's lambdas, and the Enter
\* key, which writes to _allOutputBuffer too
NextOut ==
    \/ \E t \in Threads : CanPrint(OutPrints) /\ PrintCall(t)
    \/ \E t \in Threads : PrintPost(t)
    \/ GuiRun
    \/ CanType(OutLen) /\ TypeKey
    \/ CanEnter(OutLines) /\ EnterKey
    \/ Shutdown

SpecOut == Init /\ [][NextOut]_vars

\* clearing: print() from two threads and typed keys with clearConsole(),
\* setClearEnabled() and shutdown()
NextClear ==
    \/ \E t \in Threads : CanPrint(ClearPrints) /\ PrintCall(t)
    \/ \E t \in Threads : PrintPost(t)
    \/ GuiRun
    \/ (~_clearEnabled => CanPrint(ClearPrints)) /\ ClearConsole
    \/ CanType(ClearLen) /\ TypeKey
    \/ SetClearEnabled
    \/ Shutdown

SpecClear == Init /\ [][NextClear]_vars

\* the output lock: getAllOutput() on a thread of its own, with print(),
\* typed keys and the Enter key
NextLock ==
    \/ GetAllOutputLock
    \/ GetAllOutputRead
    \/ \E t \in Threads : CanPrint(LockPrints) /\ PrintCall(t)
    \/ \E t \in Threads : PrintPost(t)
    \/ GuiRun
    \/ CanType(LockLen) /\ TypeKey
    \/ CanEnter(LockLines) /\ EnterKey

SpecLock == Init /\ [][NextLock]_vars

\* the steps of the reader thread inside readLine()
Reader ==
    \/ ReadLoopTest
    \/ ReadScript
    \/ ReadInput
    \/ ReadWake
    \/ ReadReturn

\* readLine() with every way to end its wait: typed lines, scripts, end of
\* input and shutdown; the reader thread is scheduled fairly
NextLive ==
    \/ CanLoad(LiveLoads) /\ LoadInputScript
    \/ CanEnter(LiveLines) /\ EnterKey
    \/ CanEof(0) /\ ProcessEof
    \/ Shutdown
    \/ CanRead(LiveReads) /\ ReadLineCall
    \/ Reader
    \/ GuiRun

SpecLive == Init /\ [][NextLive]_vars /\ WF_vars(Reader)

\* the order of the output: two threads that print, one of which also
\* reads lines of an input script; a thread is in one call at a time
NextOrder ==
    \/ CanLoad(OrderLoads) /\ LoadInputScript
    \/ /\ CanRead(OrderReads)
       /\ printPc[ReaderThread] = "idle"
       /\ ReadLineCall
    \/ ReadLoopTest
    \/ ReadScript
    \/ ReadInput
    \/ ReadWake
    \/ ReadReturn
    \/ \E t \in Threads :
         /\ CanPrint(OrderPrints)
         /\ t = ReaderThread => pc = "idle"
         /\ PrintCall(t)
    \/ \E t \in Threads : PrintPost(t)
    \/ GuiRun

SpecOrder == Init /\ [][NextOrder]_vars

(***************************************************************************)
(* Properties.                                                             *)
(***************************************************************************)
RECURSIVE IsPrefix(_, _)
IsPrefix(s, t) ==
    \/ s = <<>>
    \/ /\ t # <<>>
       /\ Head(s) = Head(t)
       /\ IsPrefix(Tail(s), Tail(t))

\* C1 (SpecScript): script lines are preferred over queued typed lines: a
\* readLine() call that finds the ScriptQueue non-empty returns the head of
\* the ScriptQueue and leaves the InputQueue untouched, so its only
\* dequeue is that script line and the line is its result.
C1_ScriptLinePreferred ==
    (pc = "exit" /\ taken # <<>> /\ taken[1].src = "script")
        => (Len(taken) = 1 /\ line = taken[1].text)

\* C2 (SpecScript): no line is lost by readLine(): a call removes at most
\* one line in total from the two queues, and a line it removes is the
\* value it returns.
C2_NoLineLost ==
    pc = "exit" =>
        /\ Len(taken) <= 1
        /\ \A i \in DOMAIN taken : line = taken[i].text

\* C3 (SpecTyped): with an empty ScriptQueue and no end of input or
\* shutdown, the values returned by successive readLine() calls are, in
\* every interleaving of Enter submissions and readLine() calls, a prefix
\* of the submitted lines in submission order (_inputCommandHistory records
\* every submitted line, in order).
C3_TypedLinesInOrder ==
    /\ Len(returned) <= Len(_inputCommandHistory)
    /\ IsPrefix(returned, _inputCommandHistory)

\* two different lines, submitted while no readLine() was pending or while
\* one was, have both been returned
C3_Witness ==
    /\ Len(returned) = 2
    /\ returned[1] # returned[2]
    /\ returned[1] # <<>>

\* the print() calls whose lambda the GUI thread has run: the GUI thread
\* runs the lambdas in the order they were posted
AppliedPrints ==
    SubSeq(printed, 1,
           Len(printed)
             - Cardinality({i \in DOMAIN guiQueue : guiQueue[i].kind = "print"}))

\* what has been written to the OutputLog, one text per writer: the text of
\* each applied print() call, with its line breaks cleaned, and each
\* submitted line with its newline
WrittenTexts ==
    [i \in 1 .. Len(AppliedPrints) |-> CleanLineBreaks(AppliedPrints[i])]
      \o [i \in DOMAIN _inputCommandHistory |->
            _inputCommandHistory[i] \o <<LF>>]

\* log is the concatenation, in some order, of the texts units[i], i \in left
RECURSIVE IsConcatOf(_, _, _)
IsConcatOf(log, units, left) ==
    IF left = {} THEN log = <<>>
    ELSE \E i \in left :
           /\ Len(units[i]) <= Len(log)
           /\ SubSeq(log, 1, Len(units[i])) = units[i]
           /\ IsConcatOf(SubSeq(log, Len(units[i]) + 1, Len(log)),
                         units, left \ {i})

\* C4 (SpecOut): for any interleaving of print() calls from concurrent
\* threads the OutputLog is a concatenation, in some order, of the complete
\* texts the calls write (the text of a call is its argument with the line
\* breaks cleaned), each exactly once and none split by another; the lines
\* submitted with Enter are written whole in the same way.
C4_WholeTexts ==
    IsConcatOf(_allOutputBuffer, WrittenTexts, DOMAIN WrittenTexts)

\* two calls with different texts and a submitted line have been written
C4_Witness ==
    /\ Len(AppliedPrints) = 2
    /\ AppliedPrints[1] # AppliedPrints[2]
    /\ _inputCommandHistory # <<>>

\* every print() call that passed the _shutdown test has been applied
AllApplied ==
    /\ guiQueue = <<>>
    /\ \A t \in Threads : printPc[t] = "idle"

RECURSIVE SumOfLengths(_)
SumOfLengths(texts) ==
    IF texts = <<>> THEN 0
    ELSE Len(Head(texts)) + SumOfLengths(Tail(texts))

\* the number of "\r\n" pairs in a text
CountCRLF(str) ==
    Cardinality({i \in 1 .. Len(str) - 1 : str[i] = CR /\ str[i + 1] = LF})

RECURSIVE SumOfCRLF(_)
SumOfCRLF(texts) ==
    IF texts = <<>> THEN 0
    ELSE CountCRLF(Head(texts)) + SumOfCRLF(Tail(texts))

\* C5 as stated (SpecOut): once all print() calls have been applied (none
\* after shutdown, no clear, no other writer), the length of the OutputLog
\* equals the sum of the lengths of the texts passed to print().
C5_LengthIsSumOfInputs ==
    (AllApplied /\ _inputCommandHistory = <<>>)
        => Len(_allOutputBuffer) = SumOfLengths(printed)

\* C5 as amended (SpecOut): once all print() calls have been applied, the
\* length of the OutputLog equals the sum of the lengths of the texts passed
\* to print() less one for every "\r\n" pair in them, which print() writes
\* as the single character "\n".
C5_LengthIsSumOfCleanedInputs ==
    (AllApplied /\ _inputCommandHistory = <<>>)
        => Len(_allOutputBuffer) = SumOfLengths(printed) - SumOfCRLF(printed)

\* two calls have been applied, one of them with a "\r\n" in its text
C5_Witness ==
    /\ AllApplied
    /\ _inputCommandHistory = <<>>
    /\ Len(printed) = 2
    /\ SumOfCRLF(printed) = 1
    /\ Len(_allOutputBuffer) = 3

\* C6 (SpecTyped): a submit (Enter) of the pending text t leaves t as the
\* last CommandHistory entry, the history cursor equal to the history
\* length and the pending buffer empty; and when both queues were empty at
\* the submit, the readLine() call that follows it returns exactly t.
C6_SubmitThenRead ==
    /\ [](\A i \in DOMAIN probe : i <= Len(returned) => returned[i] = probe[i])
    /\ [][Len(_inputCommandHistory') > Len(_inputCommandHistory) =>
            /\ Len(_inputCommandHistory') = Len(_inputCommandHistory) + 1
            /\ _inputCommandHistory'[Len(_inputCommandHistory')] = _inputBuffer
            /\ _commandHistoryIndex' = Len(_inputCommandHistory')
            /\ _inputBuffer' = <<>>]_vars

\* two texts were each submitted with both queues empty and each was then
\* returned by the readLine() call that followed
C6_Witness ==
    /\ DOMAIN probe = {1, 2}
    /\ Len(returned) = 2
    /\ probe[1] # <<>>
    /\ probe[2] # <<>>
    /\ probe[1] # probe[2]
    /\ _commandHistoryIndex = 2

Clamp(x, lo, hi) == IF x < lo THEN lo ELSE IF x > hi THEN hi ELSE x

\* C7 (SpecHist): in every state, an Up or Down key either is ignored (no prompt is active
\* or the cursor is outside the input area) or navigates: navigate(delta)
\* sets the history index to clamp(index + delta, -1, length), and the
\* pending buffer becomes the history entry at the new index when
\* 0 <= index < length and becomes empty at either boundary.  So after the
\* submits of "a" then "b", Up recalls "b", then "a", then "", and stays.
C7_Navigate ==
    \A after \in ArrowOutcomes :
        \/ /\ after.index = _commandHistoryIndex
           /\ after.buffer = _inputBuffer
        \/ \E delta \in {-1, 1} :
             /\ after.index =
                  Clamp(_commandHistoryIndex + delta, -1,
                        Len(_inputCommandHistory))
             /\ after.buffer =
                  IF /\ 0 <= after.index
                     /\ after.index < Len(_inputCommandHistory)
                  THEN _inputCommandHistory[after.index + 1]
                  ELSE <<>>

\* after the submits of two different lines the Up key has gone through
\* both of them to the boundary before the first
C7_Witness ==
    /\ Len(_inputCommandHistory) = 2
    /\ _inputCommandHistory[1] # _inputCommandHistory[2]
    /\ _inputCommandHistory[1] # <<>>
    /\ _commandHistoryIndex = -1
    /\ _inputBuffer = <<>>
    /\ _promptActive

C9_EofIgnored ==
    [][(ProcessEof /\ _inputBuffer # <<>>) =>
         UNCHANGED << eof, eofFrom, _inputBuffer, _inputLines, _inputScript,
                      _inputCommandHistory, _commandHistoryIndex,
                      _promptActive, _shutdown, _allOutputBuffer,
                      _cinQueueMutex, guiQueue, pc, line, lineRead,
                      returned >>]_vars

\* Ctrl+D was pressed with pending input while readLine() was waiting: the
\* flag is unset and the call still waits
C9_Witness ==
    /\ eofIgnored > 0
    /\ ~eof
    /\ _inputBuffer # <<>>
    /\ pc = "sleep"
    /\ ~_shutdown

\* readLine() is waiting in its poll loop: in sleep(20), or about to
\* evaluate the while test
Blocked == pc \in {"loop", "sleep"}

\* C10 (SpecLive): with the reader thread scheduled fairly, a readLine()
\* call blocked in its poll loop eventually returns once a line is enqueued
\* (typed or from a script), end of input is signaled or shutdown is
\* entered; and when it leaves the loop because of shutdown or end of
\* input, without having read a line, its result is the empty line.
C10_BlockedReadReturns ==
    /\ (Blocked /\ (\/ _inputLines # <<>>
                    \/ _inputScript # <<>>
                    \/ eof
                    \/ _shutdown)) ~> (pc = "idle")
    /\ []((pc = "exit" /\ ~lineRead) => line = <<>>)

\* C11 (SpecOut): print() is a no-op once shutdown: a call made when
\* _shutdown is already true returns at its first test, so it posts no
\* lambda and leaves the OutputLog and the transcript unchanged, then and
\* later.
C11_PrintAfterShutdown ==
    /\ [](\A t \in Threads : late[t] => printPc[t] = "idle")
    /\ [][(_shutdown /\ \E t \in Threads : PrintCall(t)) =>
            UNCHANGED << _allOutputBuffer, _textArea, guiQueue, printed >>]_vars

\* a thread has called print() after shutdown; the text of another
\* thread's call, made before shutdown, is in the log and the transcript
C11_Witness ==
    /\ _shutdown
    /\ late[1]
    /\ ~late[2]
    /\ Len(printed) = 1
    /\ guiQueue = <<>>
    /\ _textArea # <<>>
    /\ _allOutputBuffer # <<>>


\* text is the end of whole
IsSuffix(text, whole) ==
    /\ Len(text) <= Len(whole)
    /\ text = SubSeq(whole, Len(whole) - Len(text) + 1, Len(whole))

\* the step of a clearConsole() call that finds _shutdown false and
\* _clearEnabled equal to enabled
ClearStep(enabled) == ~_shutdown /\ _clearEnabled = enabled /\ ClearConsole

\* C12 (SpecClear): clearConsole() with clearing enabled, before shutdown,
\* wipes the OutputLog as well as the transcript: after the call the
\* OutputLog holds none of the text printed before it.
C12_ClearWipesLog ==
    [][ClearStep(TRUE) => _textArea' = <<>> /\ _allOutputBuffer' = <<>>]_vars

\* the lambda that print() posts for the marker line
MarkerLambda == [kind |-> "print", text |-> ClearedMsg \o <<LF>>]

\* C13 (SpecClear): clearConsole() with clearing disabled clears nothing:
\* the call leaves the OutputLog and the transcript as they are and posts
\* exactly one print of the "(console cleared)" marker line, and what a
\* print appends is the same text in the OutputLog and in the transcript
\* (the transcript stays the end of the OutputLog).
C13_DisabledClearAppendsMarker ==
    /\ [](IsSuffix(_textArea, _allOutputBuffer))
    /\ [][ClearStep(FALSE) =>
            /\ _allOutputBuffer' = _allOutputBuffer
            /\ _textArea' = _textArea
            /\ guiQueue' = Append(guiQueue, MarkerLambda)]_vars
    /\ [][(guiQueue # <<>> /\ Head(guiQueue) = MarkerLambda /\ GuiRun) =>
            /\ _allOutputBuffer' = _allOutputBuffer \o ClearedMsg \o <<LF>>
            /\ _textArea' = _textArea \o ClearedMsg \o <<LF>>]_vars

\* with clearing disabled, the marker line has been appended after the
\* text printed before the clear, which is still in both
C13_Witness ==
    /\ ~_clearEnabled
    /\ Len(_allOutputBuffer) = 3
    /\ _allOutputBuffer = <<"x">> \o ClearedMsg \o <<LF>>
    /\ _textArea = _allOutputBuffer


\* the state a console operation is said to leave alone after shutdown
GuardedState ==
    << _inputBuffer, _inputCommandHistory, _commandHistoryIndex,
       _inputLines, _inputScript, eof, _allOutputBuffer >>

\* C14 (SpecEof): once _shutdown is true no console operation called from
\* then on (a readLine() already in progress set aside) changes the pending
\* input buffer, the command history or its index, the input queue, the
\* script queue, the end-of-input flag or the output log.
C14_NothingAfterShutdown ==
    [][(_shutdown /\ UNCHANGED readerVars) => UNCHANGED GuardedState]_vars

\* C15 (SpecOut): _shutdown is monotonic: once shutdown() has set it, no
\* later step, a further shutdown() included, makes it false again.
C15_ShutdownMonotonic == [][_shutdown => _shutdown']_vars

\* both threads have called print() after shutdown() and the flag is
\* still set
C15_Witness ==
    /\ _shutdown
    /\ late[1]
    /\ late[2]


\* readLine() is waiting for a line: in its poll loop, nothing dequeued
\* or observed yet
Pending == pc \in {"loop", "script", "sleep"} \/ (pc = "input" /\ ~lineRead)

\* no readLine() call is in progress: none was made, the last one has
\* returned, or it was left by the error of Queue::dequeue()
NoReadInProgress == pc \in {"idle", "error"}

\* C16 (SpecLive): _promptActive is true in every state in which a
\* readLine() call is pending and false whenever no readLine() call is in
\* progress.
C16_PromptActiveIffPending ==
    /\ Pending => _promptActive
    /\ NoReadInProgress => ~_promptActive


\* C17 (SpecLive): loadInputScript replaces the script queue wholesale:
\* right after a load the queue holds exactly the lines of the file
\* loaded, in order; from then on it holds an end of those lines only, so
\* every line readLine() takes from it is a line of the last file loaded
\* and no line left over from an earlier file is returned.
C17_LoadReplaces ==
    /\ [](IsSuffix(_inputScript, loaded))
    /\ [][nloads' # nloads => _inputScript' = loaded']_vars
    /\ [][_inputScript' # _inputScript /\ nloads' = nloads =>
            /\ _inputScript # <<>>
            /\ _inputScript' = Tail(_inputScript)
            /\ line' = Head(_inputScript)]_vars

\* a second file was loaded while lines of the first were still queued,
\* and readLine() has then taken the first line of the second file
C17_Witness ==
    /\ nloads = 2
    /\ discarded # <<>>
    /\ loaded # <<>>
    /\ _inputScript = Tail(loaded)
    /\ taken = << [src |-> "script", text |-> Head(loaded)] >>


\* the cursor at index i of the pending input, nothing selected
CursorAt(i) == [found |-> TRUE, pos |-> i, selStart |-> i, selEnd |-> i]

\* a prompt is active and the pending input is not empty
Editing == _promptActive /\ ~_shutdown /\ _inputBuffer # <<>>

\* C18 (SpecTyped): during an active prompt, Backspace with the cursor at
\* index 0 of a non-empty pending buffer is a no-op: the buffer keeps its
\* text and nothing is deleted from the transcript.
C18_BackspaceAtStart ==
    Editing =>
        /\ CursorAt(0) \in CursorViews(_inputBuffer)
        /\ ProcessBackspace(_inputBuffer, CursorAt(0), TRUE) = _inputBuffer
        /\ BackspaceEdit(_inputBuffer, CursorAt(0), TRUE) = "none"

\* a prompt is active and a character has been typed: Backspace at index
\* 0 leaves this state as it is, Backspace at the end does not
C18_Witness ==
    /\ Editing
    /\ ProcessBackspace(_inputBuffer, CursorAt(0), TRUE) = _inputBuffer
    /\ ProcessBackspace(_inputBuffer, CursorAt(Len(_inputBuffer)), TRUE)
         # _inputBuffer

\* C19 (SpecTyped): during an active prompt, Delete with the cursor at the
\* end of the pending buffer is a no-op (nothing is removed from the buffer
\* or the transcript), and Delete with the cursor at an index i below the
\* length removes exactly the character at index i.
C19_DeleteForward ==
    Editing =>
        /\ ProcessBackspace(_inputBuffer, CursorAt(Len(_inputBuffer)), FALSE)
             = _inputBuffer
        /\ BackspaceEdit(_inputBuffer, CursorAt(Len(_inputBuffer)), FALSE)
             = "none"
        /\ \A i \in 0 .. Len(_inputBuffer) - 1 :
             ProcessBackspace(_inputBuffer, CursorAt(i), FALSE)
               = Erase(_inputBuffer, i, 1)


\* C20 (SpecLive): readLine() tests _inputScript for emptiness and
\* dequeues from it as one step under _cinQueueMutex: between the test and
\* the dequeue no loadInputScript() can empty the queue, so readLine()
\* never calls dequeue() on an empty script queue.
C20_TestAndDequeueAtomic ==
    /\ pc = "script" => _inputScript # <<>>
    /\ pc # "error"


\* C21 (SpecLock): every access to the output log is made with
\* _coutMutex held, so while one context holds the lock (getAllOutput()
\* between its lock and its unlock, copying the log) no other context
\* writes the log, the Enter key's append of the submitted line included.
C21_LogUnderOutputLock ==
    [][_coutMutex # "none" => _allOutputBuffer' = _allOutputBuffer]_vars


\* the handlers that change _inputBuffer, _inputCommandHistory or
\* _commandHistoryIndex
MutatingHandlers ==
    { "clipboardCut", "processBackspace", "processCommandHistory",
      "processUserInputEnterKey", "processUserInputKey", "setUserInput" }

\* C22 (SpecHist): every change of the pending input buffer, of the
\* command history and of its index is made with _cinMutex locked for
\* writing: so is every assignment of the index that an Up or Down key can
\* make in the current state, and so is what every other handler does.
C22_MutationsUnderWriteLock ==
    /\ \A after \in ArrowOutcomes : after.lock \in {"none", "write"}
    /\ \A handler \in MutatingHandlers \ {"processCommandHistory"} :
         CinMutexMode(handler) = "write"


\* C23 (SpecHist): the history index always lies in -1 .. length of the
\* command history; the history is append-only (every step leaves the old
\* entries in place as the beginning of the new history); and right after
\* every submit the index equals the new length.
C23_HistoryInvariants ==
    /\ [](/\ -1 <= _commandHistoryIndex
          /\ _commandHistoryIndex <= Len(_inputCommandHistory))
    /\ [][IsPrefix(_inputCommandHistory, _inputCommandHistory')]_vars
    /\ [][_inputCommandHistory' # _inputCommandHistory =>
            _commandHistoryIndex' = Len(_inputCommandHistory')]_vars

\* two lines have been submitted, the first recalled with the Up key and
\* the index is at the first entry
C23_Witness ==
    /\ Len(_inputCommandHistory) = 2
    /\ _inputCommandHistory[1] # <<>>
    /\ _commandHistoryIndex = 0
    /\ _inputBuffer = _inputCommandHistory[1]


\* C24 (SpecScript): a script line is echoed (its lambda posted) exactly
\* when it is returned by readLine(): at the return of a call, every script
\* line the call has dequeued and echoed is the value the call returns.
C24_EchoedIsReturned ==
    pc = "exit" =>
        \A i \in DOMAIN taken :
            taken[i].src = "script" => taken[i].text = line


\* C25 (SpecLive): no lock is held across a suspension point or past the
\* end of an operation: readLine() holds no lock while it sleeps between
\* polls, and it holds none once it is over.
C25_NoLockHeldAcross ==
    /\ pc = "sleep" => _cinQueueMutex # "reader"
    /\ NoReadInProgress => _cinQueueMutex # "reader"


\* C26 (SpecHist): an Up or Down key is ignored unless the cursor is inside
\* the input region of an active prompt: with no prompt active, or with the
\* cursor outside the region, the key leaves the history index and the
\* pending buffer as they are.
C26_NavigationGated ==
    \A delta \in {-1, 1}, view \in CursorViews(_inputBuffer),
       found \in BOOLEAN :
        (\/ ~_promptActive
         \/ view.pos < 0
         \/ view.pos > AreaLen(_inputBuffer, view.found)) =>
            /\ ArrowOutcome(delta, view, found).index = _commandHistoryIndex
            /\ ArrowOutcome(delta, view, found).buffer = _inputBuffer

\* readLine() has returned a submitted line, no prompt is active and the
\* user has typed again: the history holds a line that an Up key would
\* recall if it were not ignored
C26_Witness ==
    /\ ~_promptActive
    /\ ~_shutdown
    /\ Len(returned) = 1
    /\ Len(_inputCommandHistory) = 1
    /\ _inputCommandHistory[1] # _inputBuffer
    /\ _inputBuffer # <<>>
    /\ _commandHistoryIndex = 1
    /\ OldCommand(HistoryIndex(-1)) = _inputCommandHistory[1]


\* C27 (SpecClear): whenever the pending input buffer is not empty the
\* transcript holds a span of user input whose text is the buffer, after
\* any sequence of typed keys, print() and clearConsole(): in particular
\* the transcript has not been emptied under a pending input.
C27_InputSpanInTranscript == _inputBuffer # <<>> => ~wiped


\* C28 (SpecTyped): before shutdown, typing a printable character first
\* removes the selection when it lies within the pending buffer, then
\* inserts the character at the cursor's index in the pending-input region;
\* with the cursor outside the region (or no region to be found) the
\* character is appended at the end; a non-printable character leaves the
\* buffer as it is.
C28_TypeInserts ==
    ~_shutdown =>
      \A key \in Keys, view \in Views(_inputBuffer) :
        LET buf == _inputBuffer
            after == ProcessUserInputKey(buf, view, key)
            inRegion == /\ _promptActive
                        /\ view.found
                        /\ 0 <= view.pos
                        /\ view.pos <= Len(buf)
            selected == /\ view.selStart < view.selEnd
                        /\ 0 <= view.selStart
                        /\ view.selEnd <= Len(buf)
            kept == IF selected
                    THEN [i \in 1 .. Len(buf) - (view.selEnd - view.selStart)
                            |-> IF i <= view.selStart THEN buf[i]
                                ELSE buf[i + view.selEnd - view.selStart]]
                    ELSE buf
            at == IF selected THEN view.selStart ELSE view.pos
        IN IF key \notin Printable THEN after = buf
           ELSE IF inRegion
                THEN /\ Len(after) = Len(kept) + 1
                     /\ after[at + 1] = key
                     /\ \A i \in 1 .. Len(kept) :
                          after[IF i <= at THEN i ELSE i + 1] = kept[i]
                ELSE after = buf \o <<key>>

\* a prompt is active and a character has been typed: a second character
\* typed with the cursor at the start would go before it, and one typed
\* over the selected first character would replace it
C28_Witness ==
    /\ Editing
    /\ \E key \in Printable :
         /\ key # _inputBuffer[1]
         /\ ProcessUserInputKey(_inputBuffer, CursorAt(0), key)
              = <<key>> \o _inputBuffer
         /\ ProcessUserInputKey(_inputBuffer,
                [found |-> TRUE, pos |-> 1, selStart |-> 0, selEnd |-> 1],
                key) = <<key>> \o Tail(_inputBuffer)


\* the text with every "\r" that stands before a "\n" left out and every
\* other "\r" turned into "\n"
WithoutCR(str) ==
    LET kept == { i \in DOMAIN str :
                    ~(str[i] = CR /\ i < Len(str) /\ str[i + 1] = LF) }
        nth(k) == CHOOSE i \in kept :
                    Cardinality({j \in kept : j < i}) = k - 1
    IN [k \in 1 .. Cardinality(kept) |->
          IF str[nth(k)] = CR THEN LF ELSE str[nth(k)]]

\* C29 (SpecOut): what print(str) appends to the OutputLog and to the
\* transcript is str with every "\r\n" replaced by one "\n" and every other
\* "\r" replaced by "\n": neither ever contains a "\r".
C29_LineBreaksNormalized ==
    /\ [](/\ \A i \in DOMAIN _allOutputBuffer : _allOutputBuffer[i] # CR
          /\ \A i \in DOMAIN _textArea : _textArea[i] # CR)
    /\ [][(guiQueue # <<>> /\ guiQueue' = Tail(guiQueue)) =>
            LET str == printed[Len(AppliedPrints) + 1]
            IN /\ _allOutputBuffer' = _allOutputBuffer \o WithoutCR(str)
               /\ _textArea' = _textArea \o WithoutCR(str)]_vars

\* print("y\r\n") and print("\r") have been applied, in this order
C29_Witness ==
    /\ AllApplied
    /\ printed = << <<"y", CR, LF>>, <<CR>> >>
    /\ _textArea = <<"y", LF, LF>>


\* C30 (SpecLive): no interleaving of the key handlers with a readLine()
\* caller deadlocks: a lock that is held is released again, so no context
\* that needs _cinQueueMutex (the Enter key, loadInputScript(), the next
\* poll of readLine()) waits for it for ever.
C30_NoDeadlock == (_cinQueueMutex # "none") ~> (_cinQueueMutex = "none")


(***************************************************************************)
(* The document of _textArea during one handler of the GUI thread.  The    *)
(* document is a sequence of cells, a character with the format it was     *)
(* written in: "output" for what print() wrote, "input" for the user       *)
(* input colour.  An edit is a record                                      *)
(*   doc     the cells of the document                                     *)
(*   anchor  the anchor of the QTextCursor: the other end of the selection *)
(*   pos     the position of the QTextCursor, 0 .. Len(doc)                *)
(*   buf     _inputBuffer                                                  *)
(* and a handler takes the edit it finds to the edit it leaves.            *)
(***************************************************************************)
Cells(str, fmt) == [i \in 1 .. Len(str) |-> [ch |-> str[i], fmt |-> fmt]]

\* GTextArea::getText(): the characters of the document
TextOf(doc) == [i \in 1 .. Len(doc) |-> doc[i].ch]

SelectionStart(e) == IF e.anchor < e.pos THEN e.anchor ELSE e.pos
SelectionEnd(e) == IF e.anchor < e.pos THEN e.pos ELSE e.anchor

\* the fragments of the document: the longest runs of cells of one format
\* inside one block (a line break ends a block and is in no fragment),
\* each given by the index of its first cell
FragmentStarts(doc) ==
    { s \in 1 .. Len(doc) :
        /\ doc[s].ch # LF
        /\ s = 1 \/ doc[s - 1].ch = LF \/ doc[s - 1].fmt # doc[s].fmt }

FragmentLength(doc, s) ==
    LET same(j) == \A k \in s .. j : doc[k].ch # LF /\ doc[k].fmt = doc[s].fmt
    IN Cardinality({ j \in s .. Len(doc) : same(j) })

BlockOf(doc, s) == Cardinality({ i \in 1 .. s - 1 : doc[i].ch = LF })

\* getUserInputFragment(), lines 428-452: the blocks are searched from the
\* last to the first, each from its first fragment on, for a fragment
\* whose text is _inputBuffer
GetUserInputFragment(doc, buf) ==
    LET match == { s \in FragmentStarts(doc) :
                     TextOf(SubSeq(doc, s, s + FragmentLength(doc, s) - 1)) = buf }
        first == CHOOSE s \in match :
                   \A t \in match :
                      \/ BlockOf(doc, t) < BlockOf(doc, s)
                      \/ BlockOf(doc, t) = BlockOf(doc, s) /\ s <= t
    IN IF buf # <<>> /\ match # {}
       THEN [valid |-> TRUE, position |-> first - 1,
             length |-> FragmentLength(doc, first)]
       ELSE [valid |-> FALSE, position |-> -1, length |-> 0]

\* getUserInputStart(), lines 454-464
GetUserInputStart(doc, buf) ==
    LET frag == GetUserInputFragment(doc, buf)
    IN IF frag.valid THEN frag.position
       ELSE IF _promptActive THEN Len(doc) ELSE -1

\* getUserInputEnd(), lines 466-476
GetUserInputEnd(doc, buf) ==
    LET frag == GetUserInputFragment(doc, buf)
    IN IF frag.valid THEN frag.position + frag.length
       ELSE IF _promptActive THEN Len(doc) ELSE -1

\* isCursorInUserInputArea(), lines 482-489, on the document
IsCursorInUserInputAreaOf(e) ==
    /\ _promptActive
    /\ GetUserInputStart(e.doc, e.buf) <= e.pos
    /\ e.pos <= GetUserInputEnd(e.doc, e.buf)

\* QTextCursor::movePosition(Right, MoveAnchor, 1): at the end of the
\* document the cursor stays where it is
MoveRight(e) ==
    LET p == IF e.pos < Len(e.doc) THEN e.pos + 1 ELSE e.pos
    IN [e EXCEPT !.pos = p, !.anchor = p]

\* QTextCursor::movePosition(Left, MoveAnchor, 1)
MoveLeft(e) ==
    LET p == IF e.pos > 0 THEN e.pos - 1 ELSE e.pos
    IN [e EXCEPT !.pos = p, !.anchor = p]

\* QTextCursor::setPosition(p)
SetPosition(e, p) == [e EXCEPT !.pos = p, !.anchor = p]

\* QTextCursor::removeSelectedText()
RemoveSelectedText(e) ==
    [e EXCEPT !.doc = SubSeq(e.doc, 1, SelectionStart(e))
                        \o SubSeq(e.doc, SelectionEnd(e) + 1, Len(e.doc)),
              !.pos = SelectionStart(e),
              !.anchor = SelectionStart(e)]

\* QTextCursor::charFormat(): the format of the character before the
\* cursor, or of the one after it at the start of a block
CharFormat(e) ==
    IF e.pos > 0 /\ e.doc[e.pos].ch # LF THEN e.doc[e.pos].fmt
    ELSE IF e.pos < Len(e.doc) /\ e.doc[e.pos + 1].ch # LF
    THEN e.doc[e.pos + 1].fmt
    ELSE "output"

\* QTextCursor::insertText(text): the selection, if any, is replaced
InsertText(e, text) ==
    LET e1 == RemoveSelectedText(e)
        p == e1.pos + Len(text)
    IN [e1 EXCEPT !.doc = Insert(e1.doc, e1.pos, Cells(text, CharFormat(e1))),
                  !.pos = p, !.anchor = p]

\* QTextCursor::deletePreviousChar(): the selection if there is one, else
\* the character before the cursor
DeletePreviousChar(e) ==
    IF e.anchor # e.pos THEN RemoveSelectedText(e)
    ELSE IF e.pos = 0 THEN e
    ELSE [e EXCEPT !.doc = Erase(e.doc, e.pos - 1, 1),
                   !.pos = e.pos - 1, !.anchor = e.pos - 1]

\* QTextCursor::deleteChar(): the selection if there is one, else the
\* character after the cursor
DeleteChar(e) ==
    IF e.anchor # e.pos THEN RemoveSelectedText(e)
    ELSE IF e.pos = Len(e.doc) THEN e
    ELSE [e EXCEPT !.doc = Erase(e.doc, e.pos, 1)]

\* GTextArea::appendFormattedText(text, color, font): the text is added at
\* the end of the document and the cursor is moved to the end
AppendFormattedText(e, text, fmt) ==
    LET d == e.doc \o Cells(text, fmt)
    IN [e EXCEPT !.doc = d, !.pos = Len(d), !.anchor = Len(d)]


\* std::string::substr(pos, n)
Substr(str, pos, n) ==
    SubSeq(str, pos + 1, IF pos + n < Len(str) THEN pos + n ELSE Len(str))

\* processUserInputKey(key), lines 955-1031, on the document
ProcessUserInputKeyEdit(e, key) ==
    IF _shutdown \/ ~IsPrint(key) THEN e
    ELSE
      LET frag == GetUserInputFragment(e.doc, e.buf)
      IN IF IsCursorInUserInputAreaOf(e) /\ frag.valid
         THEN LET selectionStart == SelectionStart(e) - frag.position
                  selectionEnd == SelectionEnd(e) - frag.position
                  removeSel == /\ selectionEnd > selectionStart
                               /\ selectionStart >= 0
                               /\ selectionEnd <= Len(e.buf)
                  \* lines 979-980
                  e1 == IF removeSel
                        THEN [RemoveSelectedText(e) EXCEPT
                                !.buf = Erase(e.buf, selectionStart,
                                              selectionEnd - selectionStart)]
                        ELSE e
                  indexToInsert == e1.pos - frag.position
                  \* lines 1004-1008 or line 1013
                  e2 == IF indexToInsert = 0
                        THEN MoveRight(DeletePreviousChar(MoveLeft(MoveLeft(
                               InsertText(MoveRight(e1),
                                          <<key>> \o Substr(e1.buf, 0, 1))))))
                        ELSE InsertText(e1, <<key>>)
              IN [e2 EXCEPT !.buf = Insert(e1.buf, indexToInsert, <<key>>)]
         ELSE \* lines 1022-1027
              [AppendFormattedText(e, <<key>>, "input") EXCEPT
                 !.buf = e.buf \o <<key>>]

\* processBackspace(key), lines 872-917, on the document
ProcessBackspaceEdit(e, isBackspace) ==
    LET frag == GetUserInputFragment(e.doc, e.buf)
        userInputIndexMin == frag.position
        userInputIndexMax == frag.position + frag.length
                               - (IF isBackspace THEN 0 ELSE 1)
        inside == e.pos >= userInputIndexMin /\ e.pos < userInputIndexMax
        indexToDelete == IF inside
                         THEN e.pos - frag.position
                                - (IF isBackspace THEN 1 ELSE 0)
                         ELSE Len(e.buf) - 1
        e1 == IF inside THEN e
              ELSE SetPosition(e, frag.position + frag.length)
    IN IF _shutdown \/ ~_promptActive THEN e
       ELSE IF e.buf = <<>> \/ ~frag.valid THEN e
       ELSE IF indexToDelete >= 0 /\ indexToDelete < Len(e.buf)
       THEN [(IF isBackspace \/ indexToDelete = Len(e.buf) - 1
              THEN DeletePreviousChar(e1)
              ELSE DeleteChar(e1)) EXCEPT
               !.buf = Erase(e.buf, indexToDelete, 1)]
       ELSE e1

\* clipboardCut(), lines 308-340, on the document
ClipboardCutEdit(e) ==
    LET userInputStart == GetUserInputStart(e.doc, e.buf)
        userInputEnd == GetUserInputEnd(e.doc, e.buf)
        selectionStart == SelectionStart(e)
        selectionEnd == SelectionEnd(e)
    IN IF _shutdown \/ ~_promptActive THEN e
       ELSE IF /\ selectionEnd > selectionStart
               /\ selectionStart >= userInputStart
               /\ selectionEnd <= userInputEnd
               /\ GetUserInputFragment(e.doc, e.buf).valid
       THEN [RemoveSelectedText(e) EXCEPT
               !.buf = Erase(e.buf, selectionStart - userInputStart,
                             selectionEnd - selectionStart)]
       ELSE e

\* the loop of setUserInput(), lines 1250-1252
RECURSIVE TypeAllEdit(_, _)
TypeAllEdit(e, str) ==
    IF str = <<>> THEN e
    ELSE TypeAllEdit(ProcessUserInputKeyEdit(e, Head(str)), Tail(str))

\* QTextCursor::movePosition(Right, KeepAnchor, n)
SelectRight(e, n) ==
    [e EXCEPT !.pos = IF e.pos + n <= Len(e.doc) THEN e.pos + n
                      ELSE Len(e.doc)]

\* setUserInput(userInput), lines 1231-1253, on the document
SetUserInputEdit(e, userInput) ==
    LET frag == GetUserInputFragment(e.doc, e.buf)
        e1 == IF frag.valid
              THEN RemoveSelectedText(
                     SelectRight(SetPosition(e, frag.position), frag.length))
              ELSE e
    IN TypeAllEdit([e1 EXCEPT !.buf = <<>>], userInput)

\* processKeyPress, UP_ARROW_KEY or DOWN_ARROW_KEY (lines 698, 805-816)
\* with processCommandHistory(delta), on the document
ProcessCommandHistoryEdit(e, delta) ==
    IF ~_shutdown /\ IsCursorInUserInputAreaOf(e)
    THEN SetUserInputEdit(e, OldCommand(HistoryIndex(delta)))
    ELSE e


\* what precedes the pending input in the transcript: nothing, or what one
\* print() call wrote
Transcripts ==
    { <<>> } \cup { Cells(CleanLineBreaks(str), "output") : str \in PrintTexts }

\* the pending input shown after it, with the cursor and the selection
\* wherever the user has put them
EditsOf(before) ==
    { [doc |-> before \o Cells(_inputBuffer, "input"),
       anchor |-> a, pos |-> p, buf |-> _inputBuffer] :
        a \in 0 .. Len(before) + Len(_inputBuffer),
        p \in 0 .. Len(before) + Len(_inputBuffer) }

\* what the editing keys make of it: a character key, Backspace or Delete,
\* Ctrl+X, Up or Down
EditOutcomes(e) ==
    { ProcessUserInputKeyEdit(e, key) : key \in Keys }
      \cup { ProcessBackspaceEdit(e, isBackspace) : isBackspace \in BOOLEAN }
      \cup { ClipboardCutEdit(e) }
      \cup { ProcessCommandHistoryEdit(e, delta) : delta \in {-1, 1} }

\* C31: no edit of the pending input (a typed character, Backspace,
\* Delete, cut, history recall) changes the text of the transcript outside
\* the span of the pending input: what was printed before the span is
\* still in front of it after the edit
C31_EditsStayInSpan ==
    \A before \in Transcripts :
      \A e \in EditsOf(before) :
        \A after \in EditOutcomes(e) :
          IsPrefix(TextOf(before), TextOf(after.doc))


\* C32: once shutdown() has returned, neither the OutputLog nor the
\* transcript changes again, whatever was posted to the GUI thread before
\* the shutdown and is applied after it
C32_FrozenAfterShutdown ==
    [][_shutdown => /\ _allOutputBuffer' = _allOutputBuffer
                    /\ _textArea' = _textArea]_vars


\* the texts of the lambdas posted to the GUI thread, in the order in
\* which they were posted: before the print() text number i + 1 come the
\* echoes that were posted with i print() texts posted
RECURSIVE PostedFrom(_)
PostedFrom(i) ==
    LET echoes == SelectSeq(sent, LAMBDA e : e.kind = "echo" /\ e.at = i)
        texts == [k \in 1 .. Len(echoes) |-> echoes[k].text]
    IN IF i >= Len(printed) THEN texts
       ELSE texts \o << CleanLineBreaks(printed[i + 1]) >>
              \o PostedFrom(i + 1)

Posted == PostedFrom(0)

RECURSIVE Flatten(_)
Flatten(texts) ==
    IF texts = <<>> THEN <<>> ELSE Head(texts) \o Flatten(Tail(texts))

\* the positions in Posted of what the thread that reads has sent
PositionOf(k) ==
    sent[k].at + Cardinality({ j \in 1 .. k : sent[j].kind = "echo" })
      + (IF sent[k].kind = "print" THEN 1 ELSE 0)

C34_ClearAfterPrints ==
    [][(/\ ~wiped
        /\ wiped'
        /\ \A t \in Threads : printPc[t] = "idle")
         => \A i \in DOMAIN guiQueue : guiQueue[i].kind # "print"]_vars

=============================================================================
